---- MODULE Spec2Model ----
(***************************************************************************)
(* A state-machine model of src/train.py: the MoCo training driver         *)
(* (__main__), one training pass (train), and the ShuffleBN index          *)
(* generator (get_shuffle_idx).  Tensors indexed along the batch dimension *)
(* are functions over 0..N-1, as in the source; the dictionary (queue) is  *)
(* a sequence of embedding rows, oldest first.                             *)
(***************************************************************************)
EXTENDS Integers, Sequences, FiniteSets, TLC

\* ---------------------------------------------------------------- bounds
MaxData == 3        \* largest len(train_data) of the small configurations
MaxBatch == 2       \* largest --batch_size of the small configurations
MaxDict == 3        \* largest --dictionary_size of the small configurations
MaxEpochs == 2      \* largest --epochs
MaxN == 5           \* largest num_data handed to get_shuffle_idx on its own
MaxOrders == 2      \* number of sample orders the loader's shuffle chooses from

\* value domains of the abstracted numerics
Models == {"q", "k"}
ParamIdx == {1, 2}
ParamVals == {0, 1}
ParamVecs == [ParamIdx -> ParamVals]
LossVals == {1, 2}
AccVals == {0, 1, 2}

\* the scenario of the spec's section 8: N = 4, C = 8, three batches
ExampleConfig == [batch_size |-> 4, dictionary_size |-> 8, num_data |-> 12]

\* a capacity that is not a multiple of the batch size: N = 2, C = 3
UnevenConfig == [batch_size |-> 2, dictionary_size |-> 3, num_data |-> 6]

Configs ==
    [batch_size : 1..MaxBatch, dictionary_size : 1..MaxDict, num_data : 1..MaxData]
        \cup {ExampleConfig, UnevenConfig}

VARIABLES
    pc,              \* position of the single thread of control
    batch_size,      \* args.batch_size
    dictionary_size, \* args.dictionary_size
    num_data,        \* len(train_data)
    epochs,          \* args.epochs
    epoch,           \* loop variable of the driver
    params,          \* params[m]: the parameter vector of model_q / model_k
    requires_grad,   \* requires_grad[m]: whether the parameters of m get gradients
    queue,           \* the dictionary, local to train()
    train_bar,       \* the samples the loader has still to deliver this epoch
    data,            \* the current mini-batch (image ids), rows 0..N-1
    N, K,            \* batch size and dictionary length at step start
    q, k, x_k,       \* query embeddings, key embeddings, key view
    shuffle_idx, reverse_idx,
    loss,            \* loss.item() of the current step
    total_loss, n_data,
    current_loss,    \* the value train() returned, as <<total_loss, n_data>>
    current_acc_1, best_acc,
    checkpoint,      \* the saved file (whose state_dict, and its value), or "none"
    sched_epoch,     \* the last epoch handed to lr_scheduler.step
    negatives,       \* the dictionary rows the current step's l_neg was computed from
    logits, labels,  \* logits[i][c]: the pair of rows whose product is column c of row i
    results_acc_1,   \* results['test_acc@1']
    trace,           \* history: the operations of the current training step, in order
    enqueued,        \* history: every row enqueued into the current dictionary object
    was_ready,       \* history: some readiness test of this run has succeeded
    beta0_calls,     \* history: calls of momentum_update with beta = 0 so far
    opt_steps,       \* history: calls of optimizer.step() so far
    ready_n,         \* history: batch sizes of this epoch's ready steps, summed
    ready_loss,      \* history: loss times batch size of this epoch's ready steps, summed
    saved_at         \* history: the epochs in which the checkpoint was written

vars == <<pc, batch_size, dictionary_size, num_data, epochs, epoch, params,
          requires_grad, queue, train_bar, data, N, K, q, k, x_k, shuffle_idx,
          reverse_idx, loss, total_loss, n_data, current_loss, current_acc_1,
          best_acc, checkpoint, sched_epoch, negatives, trace, enqueued, was_ready,
          beta0_calls, opt_steps, logits, labels, results_acc_1, ready_n,
          ready_loss, saved_at>>

\* ------------------------------------------------------- tensor helpers
Empty == [i \in {} |-> 0]

zeros(n) == [i \in 0..(n - 1) |-> 0]

arange(n) == [i \in 0..(n - 1) |-> i]

\* torch.randperm(n): the set of results the random source can produce
randperm(n) ==
    {p \in [0..(n - 1) -> 0..(n - 1)] :
        \A i, j \in 0..(n - 1) : i # j => p[i] # p[j]}

\* self.index_copy_(0, index, source): self[index[i]] <- source[i]
index_copy_(self, index, source) ==
    [j \in DOMAIN self |->
        IF \E i \in DOMAIN index : index[i] = j
        THEN source[CHOOSE i \in DOMAIN index : index[i] = j]
        ELSE self[j]]

\* t[idx]: row j of the result is row idx[j] of t
Index(t, idx) == [j \in DOMAIN idx |-> t[idx[j]]]

\* rows 0..n-1 of a batch as a sequence, in row order
Rows(t) == [i \in 1..Cardinality(DOMAIN t) |-> t[i - 1]]

\* ------------------------------------------------------ get_shuffle_idx
get_shuffle_idx_copy(n, shuffle_value) ==
    <<shuffle_value, index_copy_(zeros(n), arange(n), shuffle_value)>>

\* get_shuffle_idx(num_data), for the permutation torch.randperm drew
get_shuffle_idx(n, shuffle_value) ==
    <<shuffle_value, index_copy_(zeros(n), shuffle_value, arange(n))>>

\* --------------------------------------------------------------- encoders
\* One row of an encoder's output: determined by the parameters and the image.
Enc(theta, image) == [theta |-> theta, image |-> image]

\* model(x): row-wise (order-equivariant) forward pass of model m
Forward(m, x) == [j \in DOMAIN x |-> Enc(params[m], x[j])]

UnshuffleForward(kk, shuffle, reverse) == Index(kk, shuffle)

\* k = k[reverse_idx]
Unshuffle(kk, shuffle, reverse) == Index(kk, reverse)

\* ------------------------------------------------------------------ utils
\* The momentum coefficient utils.momentum_update uses when none is passed,
\* as the fraction <<numerator, denominator>>; 1/2 stands for a coefficient
\* strictly between 0 and 1.
DefaultBeta == <<1, 2>>

ZeroBeta == <<0, 1>>

\* utils.momentum_update(model_q, model_k, beta): the new key parameters,
\* theta_k <- beta * theta_k + (1 - beta) * theta_q, parameter by parameter
momentum_update(theta_q, theta_k, beta) ==
    [i \in DOMAIN theta_k |->
        (beta[1] * theta_k[i] + (beta[2] - beta[1]) * theta_q[i]) \div beta[2]]

\* utils.queue_data(queue, k): the batch appended after the stored rows
queue_data(data_, k_) == data_ \o Rows(k_)

\* utils.dequeue_data(queue, K): the newest K rows when there are more than K
dequeue_data(data_, cap) ==
    IF Len(data_) > cap
    THEN SubSeq(data_, Len(data_) - cap + 1, Len(data_))
    ELSE data_

\* ----------------------------------------------------------------- loader
Min(a, b) == IF a < b THEN a ELSE b

\* DataLoader(train_data, batch_size, shuffle=True): the orders in which one
\* epoch can deliver the samples 0..n-1
SamplerOrders(n) ==
    {[i \in 1..n |-> (i - 1 + r) % n] : r \in 0..(Min(n, MaxOrders) - 1)}

\* the next mini-batch: the first batch_size samples still to deliver
NextData(bar) == [i \in 0..(Min(batch_size, Len(bar)) - 1) |-> bar[i + 1]]

RestOf(bar) == SubSeq(bar, Min(batch_size, Len(bar)) + 1, Len(bar))

\* ------------------------------------------------------------------- Init
\* The state after both encoders are constructed (line 118), each with its
\* own random initial parameters.
Init ==
    /\ \E c \in Configs :
        /\ batch_size = c.batch_size
        /\ dictionary_size = c.dictionary_size
        /\ num_data = c.num_data
    /\ epochs \in 1..MaxEpochs
    /\ params \in [Models -> ParamVecs]
    /\ requires_grad = [m \in Models |-> TRUE]
    /\ pc = "freeze_key"
    /\ epoch = 0
    /\ queue = <<>>
    /\ train_bar = <<>>
    /\ data = Empty /\ q = Empty /\ k = Empty /\ x_k = Empty
    /\ shuffle_idx = Empty /\ reverse_idx = Empty
    /\ N = 0 /\ K = 0
    /\ loss = 0 /\ total_loss = 0 /\ n_data = 0
    /\ current_loss = <<0, 0>>
    /\ current_acc_1 = 0 /\ best_acc = 0
    /\ checkpoint = "none"
    /\ sched_epoch = 0
    /\ negatives = <<>>
    /\ trace = <<>>
    /\ enqueued = <<>>
    /\ was_ready = FALSE
    /\ beta0_calls = 0
    /\ opt_steps = 0
    /\ logits = Empty /\ labels = Empty
    /\ results_acc_1 = <<>>
    /\ ready_n = 0 /\ ready_loss = 0
    /\ saved_at = {}

config == <<batch_size, dictionary_size, num_data, epochs>>
step_locals ==
    <<data, N, K, q, k, x_k, shuffle_idx, reverse_idx, loss, negatives, logits, labels>>
epoch_locals == <<current_loss, current_acc_1, best_acc, checkpoint, sched_epoch>>
totals == <<total_loss, n_data>>
history == <<trace, enqueued, was_ready, beta0_calls, opt_steps>>
audit == <<results_acc_1, ready_n, ready_loss, saved_at>>

\* ----------------------------------------------------------------- driver
\* for param in model_k.parameters(): param.requires_grad = False
FreezeKey ==
    /\ pc = "freeze_key"
    /\ requires_grad' = [requires_grad EXCEPT !["k"] = FALSE]
    /\ pc' = "init_momentum"
    /\ UNCHANGED <<audit, config, epoch, params, queue, train_bar, step_locals,
                   totals, epoch_locals, history>>

InitMomentumDefaultBeta ==
    /\ pc = "init_momentum"
    /\ params' = [params EXCEPT
                    !["k"] = momentum_update(params["q"], params["k"], DefaultBeta)]
    /\ beta0_calls' = beta0_calls + 1
    /\ pc' = "setup"
    /\ UNCHANGED <<audit, config, epoch, requires_grad, queue, train_bar, step_locals,
                   totals, epoch_locals, trace, enqueued, was_ready, opt_steps>>

\* utils.momentum_update(model_q, model_k, beta=0.0)
InitMomentum ==
    /\ pc = "init_momentum"
    /\ params' = [params EXCEPT
                    !["k"] = momentum_update(params["q"], params["k"], ZeroBeta)]
    /\ beta0_calls' = beta0_calls + 1
    /\ pc' = "setup"
    /\ UNCHANGED <<audit, config, epoch, requires_grad, queue, train_bar, step_locals,
                   totals, epoch_locals, trace, enqueued, was_ready, opt_steps>>

\* optimizer, lr_scheduler, cross_entropy_loss, results; best_acc = 0
Setup ==
    /\ pc = "setup"
    /\ best_acc' = 0
    /\ pc' = "epoch_loop"
    /\ UNCHANGED <<audit, config, epoch, params, requires_grad, queue, train_bar,
                   step_locals, totals, current_loss, current_acc_1, checkpoint,
                   sched_epoch, history>>

\* for epoch in range(1, epochs + 1).  current_loss and current_acc_1 of the
\* epoch before are assigned again (lines 130, 132) before they are read; they
\* are dropped here.
EpochNext ==
    /\ pc = "epoch_loop"
    /\ \/ /\ epoch < epochs
          /\ epoch' = epoch + 1
          /\ pc' = "train_enter"
          /\ current_loss' = <<0, 0>>
          /\ current_acc_1' = 0
       \/ /\ epoch >= epochs
          /\ epoch' = epoch
          /\ pc' = "done"
          /\ UNCHANGED <<current_loss, current_acc_1>>
    /\ UNCHANGED <<audit, config, params, requires_grad, queue, train_bar, step_locals,
                   totals, best_acc, checkpoint, sched_epoch, history>>

\* ------------------------------------------------------------------ train
\* model_q.train(); total_loss, n_data, train_bar = 0, 0, tqdm(train_loader);
\* queue = torch.zeros((0, features_dim))
TrainEnter ==
    /\ pc = "train_enter"
    /\ total_loss' = 0
    /\ n_data' = 0
    /\ train_bar' \in SamplerOrders(num_data)
    /\ queue' = <<>>
    /\ enqueued' = <<>>
    /\ ready_n' = 0
    /\ ready_loss' = 0
    /\ pc' = "loop"
    /\ UNCHANGED <<results_acc_1, saved_at, config, epoch, params, requires_grad, step_locals,
                   epoch_locals, trace, was_ready, beta0_calls, opt_steps>>

\* for data, target in train_bar: x_q, x_k = data, data.clone();
\* N, K = x_q.shape[0], queue.shape[0].  The previous step's q, k, indices,
\* loss and negatives are dead here and are dropped.
NextBatch ==
    /\ pc = "loop"
    /\ Len(train_bar) > 0
    /\ data' = NextData(train_bar)
    /\ train_bar' = RestOf(train_bar)
    /\ x_k' = NextData(train_bar)
    /\ N' = Min(batch_size, Len(train_bar))
    /\ K' = Len(queue)
    /\ q' = Empty /\ k' = Empty
    /\ shuffle_idx' = Empty /\ reverse_idx' = Empty
    /\ loss' = 0
    /\ negatives' = <<>>
    /\ logits' = Empty /\ labels' = Empty
    /\ trace' = <<>>
    /\ pc' = "query"
    /\ UNCHANGED <<audit, config, epoch, params, requires_grad, queue, totals,
                   epoch_locals, enqueued, was_ready, beta0_calls, opt_steps>>

\* q = model_q(x_q)
QueryForward ==
    /\ pc = "query"
    /\ q' = Forward("q", data)
    /\ pc' = "shuffle"
    /\ UNCHANGED <<audit, config, epoch, params, requires_grad, queue, train_bar,
                   data, N, K, k, x_k, shuffle_idx, reverse_idx, loss, negatives,
                   logits, labels,
                   totals, epoch_locals, history>>

\* shuffle_idx, reverse_idx = get_shuffle_idx(N); x_k = x_k[shuffle_idx];
\* k = model_k(x_k).detach(); k = k[reverse_idx]
ShuffleBN ==
    /\ pc = "shuffle"
    /\ \E shuffle_value \in randperm(N) :
        LET idx == get_shuffle_idx(N, shuffle_value)
            shuffled == Index(x_k, idx[1])
        IN  /\ shuffle_idx' = idx[1]
            /\ reverse_idx' = idx[2]
            /\ x_k' = shuffled
            /\ k' = Unshuffle(Forward("k", shuffled), idx[1], idx[2])
    /\ pc' = "ready"
    /\ UNCHANGED <<audit, config, epoch, params, requires_grad, queue, train_bar,
                   data, N, K, q, loss, negatives, logits, labels, totals,
                   epoch_locals, history>>

ReadyCheckStrict ==
    /\ pc = "ready"
    /\ \/ /\ K > dictionary_size
          /\ pc' = "loss"
          /\ was_ready' = TRUE
          /\ ready_n' = ready_n + N
       \/ /\ K <= dictionary_size
          /\ pc' = "enqueue"
          /\ was_ready' = was_ready
          /\ ready_n' = ready_n
    /\ shuffle_idx' = Empty /\ reverse_idx' = Empty /\ x_k' = Empty
    /\ UNCHANGED <<results_acc_1, ready_loss, saved_at, config, epoch, params,
                   requires_grad, queue, train_bar, data, N, K, q, k, loss,
                   negatives, logits, labels, totals, epoch_locals, trace,
                   enqueued, beta0_calls, opt_steps>>

ReadyCheckMomentumAlways ==
    /\ pc = "ready"
    /\ \/ /\ K >= dictionary_size
          /\ pc' = "loss"
          /\ was_ready' = TRUE
          /\ ready_n' = ready_n + N
       \/ /\ K < dictionary_size
          /\ pc' = "momentum"
          /\ was_ready' = was_ready
          /\ ready_n' = ready_n
    /\ shuffle_idx' = Empty /\ reverse_idx' = Empty /\ x_k' = Empty
    /\ UNCHANGED <<results_acc_1, ready_loss, saved_at, config, epoch, params,
                   requires_grad, queue, train_bar, data, N, K, q, k, loss,
                   negatives, logits, labels, totals, epoch_locals, trace,
                   enqueued, beta0_calls, opt_steps>>

\* if K >= dictionary_size.  shuffle_idx, reverse_idx and the shuffled x_k are
\* not read after line 43; they are dropped here.
ReadyCheck ==
    /\ pc = "ready"
    /\ \/ /\ K >= dictionary_size
          /\ pc' = "loss"
          /\ was_ready' = TRUE
          /\ ready_n' = ready_n + N
       \/ /\ K < dictionary_size
          /\ pc' = "enqueue"
          /\ was_ready' = was_ready
          /\ ready_n' = ready_n
    /\ shuffle_idx' = Empty /\ reverse_idx' = Empty /\ x_k' = Empty
    /\ UNCHANGED <<results_acc_1, ready_loss, saved_at, config, epoch, params,
                   requires_grad, queue, train_bar, data, N, K, q, k, loss,
                   negatives, logits, labels, totals, epoch_locals, trace,
                   enqueued, beta0_calls, opt_steps>>

\* temp=0.07, the default of train() that the driver never overrides, as the
\* fraction <<numerator, denominator>>
temp == <<7, 100>>

\* l_pos = torch.bmm(q.view(N, 1, -1), k.view(N, -1, 1)): row i is the product
\* of q[i] and k[i], kept as the pair of its factors
l_pos(qq, kk) == [i \in DOMAIN qq |-> <<qq[i], kk[i]>>]

\* l_neg = torch.mm(q, queue.t()): row i holds the product of q[i] with every
\* dictionary row, in dictionary order
l_neg(qq, negs) == [i \in DOMAIN qq |-> [j \in 1..Len(negs) |-> <<qq[i], negs[j]>>]]

\* torch.cat([l_pos.view(N, 1), l_neg], dim=-1): column 0 is l_pos, columns
\* 1.. are l_neg
cat(lp, ln) ==
    [i \in DOMAIN lp |-> [c \in 0..Len(ln[i]) |-> IF c = 0 THEN lp[i] ELSE ln[i][c]]]

ComputeLossOwnKeys ==
    /\ pc = "loss"
    /\ negatives' = queue_data(queue, k)
    /\ logits' = cat(l_pos(q, k), l_neg(q, queue_data(queue, k)))
    /\ labels' = zeros(N)
    /\ loss' \in LossVals
    /\ ready_loss' = ready_loss + loss' * N
    /\ trace' = Append(trace, "loss")
    /\ pc' = "optimizer"
    /\ UNCHANGED <<results_acc_1, ready_n, saved_at, config, epoch, params,
                   requires_grad, queue, train_bar, data, N, K, q, k, x_k,
                   shuffle_idx, reverse_idx, totals, epoch_locals, enqueued,
                   was_ready, beta0_calls, opt_steps>>

\* l_pos, l_neg, logits, labels, loss = cross_entropy_loss(logits / temp, labels)
ComputeLoss ==
    /\ pc = "loss"
    /\ negatives' = queue
    /\ logits' = cat(l_pos(q, k), l_neg(q, queue))
    /\ labels' = zeros(N)
    /\ loss' \in LossVals
    /\ ready_loss' = ready_loss + loss' * N
    /\ trace' = Append(trace, "loss")
    /\ pc' = "optimizer"
    /\ UNCHANGED <<results_acc_1, ready_n, saved_at, config, epoch, params,
                   requires_grad, queue, train_bar, data, N, K, q, k, x_k,
                   shuffle_idx, reverse_idx, totals, epoch_locals, enqueued,
                   was_ready, beta0_calls, opt_steps>>

\* optim.SGD(model_q.parameters(), ...): the models whose parameters the
\* optimizer was built over
optimizer_params == {"q"}

TrainableAll(m) == TRUE

\* optimizer.step() moves the parameters it was built over that hold a gradient
Trainable(m) == m \in optimizer_params /\ requires_grad[m]

\* optimizer.zero_grad(); loss.backward(); optimizer.step()
OptimizerStep ==
    /\ pc = "optimizer"
    /\ \E new \in [Models -> ParamVecs] :
        params' = [m \in Models |-> IF Trainable(m) THEN new[m] ELSE params[m]]
    /\ trace' = Append(trace, "optimizer_step")
    /\ opt_steps' = opt_steps + 1
    /\ pc' = "accumulate"
    /\ UNCHANGED <<audit, config, epoch, requires_grad, queue, train_bar, step_locals,
                   totals, epoch_locals, enqueued, was_ready, beta0_calls>>

AccumulateUnweighted ==
    /\ pc = "accumulate"
    /\ n_data' = n_data + N
    /\ total_loss' = total_loss + loss
    /\ pc' = "momentum"
    /\ UNCHANGED <<audit, config, epoch, params, requires_grad, queue, train_bar,
                   step_locals, epoch_locals, history>>

\* n_data += N; total_loss += loss.item() * N
Accumulate ==
    /\ pc = "accumulate"
    /\ n_data' = n_data + N
    /\ total_loss' = total_loss + loss * N
    /\ pc' = "momentum"
    /\ UNCHANGED <<audit, config, epoch, params, requires_grad, queue, train_bar,
                   step_locals, epoch_locals, history>>

\* utils.momentum_update(model_q, model_k); train_bar.set_description(...)
MomentumStep ==
    /\ pc = "momentum"
    /\ params' = [params EXCEPT
                    !["k"] = momentum_update(params["q"], params["k"], DefaultBeta)]
    /\ trace' = Append(trace, "momentum_update")
    /\ pc' = "enqueue"
    /\ UNCHANGED <<audit, config, epoch, requires_grad, queue, train_bar, step_locals,
                   totals, epoch_locals, enqueued, was_ready, beta0_calls,
                   opt_steps>>

\* queue = utils.queue_data(queue, k)
Enqueue ==
    /\ pc = "enqueue"
    /\ queue' = queue_data(queue, k)
    /\ enqueued' = enqueued \o Rows(k)
    /\ trace' = Append(trace, "queue_data")
    /\ pc' = "dequeue"
    /\ UNCHANGED <<audit, config, epoch, params, requires_grad, train_bar, step_locals,
                   totals, epoch_locals, was_ready, beta0_calls, opt_steps>>

DequeueBatch ==
    /\ pc = "dequeue"
    /\ queue' = dequeue_data(queue, N)
    /\ trace' = Append(trace, "dequeue_data")
    /\ pc' = "loop"
    /\ UNCHANGED <<audit, config, epoch, params, requires_grad, train_bar, step_locals,
                   totals, epoch_locals, enqueued, was_ready, beta0_calls,
                   opt_steps>>

DequeueDiscarded ==
    /\ pc = "dequeue"
    /\ queue' = queue
    /\ trace' = Append(trace, "dequeue_data")
    /\ pc' = "loop"
    /\ UNCHANGED <<audit, config, epoch, params, requires_grad, train_bar, step_locals,
                   totals, epoch_locals, enqueued, was_ready, beta0_calls,
                   opt_steps>>

\* queue = utils.dequeue_data(queue, dictionary_size)
Dequeue ==
    /\ pc = "dequeue"
    /\ queue' = dequeue_data(queue, dictionary_size)
    /\ trace' = Append(trace, "dequeue_data")
    /\ pc' = "loop"
    /\ UNCHANGED <<audit, config, epoch, params, requires_grad, train_bar, step_locals,
                   totals, epoch_locals, enqueued, was_ready, beta0_calls,
                   opt_steps>>

\* return total_loss / n_data, then results['train_loss'].append(current_loss);
\* with n_data = 0 the division raises ZeroDivisionError and the run ends
TrainReturn ==
    /\ pc = "loop"
    /\ Len(train_bar) = 0
    /\ \/ /\ n_data # 0
          /\ current_loss' = <<total_loss, n_data>>
          /\ pc' = "test"
       \/ /\ n_data = 0
          /\ current_loss' = current_loss
          /\ pc' = "ZeroDivisionError"
    /\ UNCHANGED <<audit, config, epoch, params, requires_grad, queue, train_bar,
                   step_locals, totals, current_acc_1, best_acc, checkpoint,
                   sched_epoch, history>>

\* current_acc_1, current_acc_5 = test(model_q, train_test_loader, test_loader, epoch)
Test ==
    /\ pc = "test"
    /\ current_acc_1' \in AccVals
    /\ results_acc_1' = Append(results_acc_1, current_acc_1')
    /\ pc' = "stats"
    /\ UNCHANGED <<ready_n, ready_loss, saved_at, config, epoch, params, requires_grad, queue, train_bar,
                   step_locals, totals, current_loss, best_acc, checkpoint,
                   sched_epoch, history>>

\* data_frame.to_csv(...); lr_scheduler.step(epoch)
SaveStats ==
    /\ pc = "stats"
    /\ sched_epoch' = epoch
    /\ pc' = "checkpoint"
    /\ UNCHANGED <<audit, config, epoch, params, requires_grad, queue, train_bar,
                   step_locals, totals, current_loss, current_acc_1, best_acc,
                   checkpoint, history>>

CheckpointNotWorse ==
    /\ pc = "checkpoint"
    /\ \/ /\ current_acc_1 >= best_acc
          /\ best_acc' = current_acc_1
          /\ checkpoint' = [model |-> "q", state_dict |-> params["q"]]
          /\ saved_at' = saved_at \cup {epoch}
       \/ /\ current_acc_1 < best_acc
          /\ UNCHANGED <<best_acc, checkpoint, saved_at>>
    /\ pc' = "epoch_loop"
    /\ UNCHANGED <<results_acc_1, ready_n, ready_loss, config, epoch, params,
                   requires_grad, queue, train_bar, step_locals, totals,
                   current_loss, current_acc_1, sched_epoch, history>>

\* if current_acc_1 > best_acc: best_acc = current_acc_1;
\* torch.save(model_q.state_dict(), ...)
Checkpoint ==
    /\ pc = "checkpoint"
    /\ \/ /\ current_acc_1 > best_acc
          /\ best_acc' = current_acc_1
          /\ checkpoint' = [model |-> "q", state_dict |-> params["q"]]
          /\ saved_at' = saved_at \cup {epoch}
       \/ /\ current_acc_1 <= best_acc
          /\ UNCHANGED <<best_acc, checkpoint, saved_at>>
    /\ pc' = "epoch_loop"
    /\ UNCHANGED <<results_acc_1, ready_n, ready_loss, config, epoch, params, requires_grad, queue, train_bar,
                   step_locals, totals, current_loss, current_acc_1,
                   sched_epoch, history>>

Next ==
    \/ FreezeKey
    \/ InitMomentum
    \/ Setup
    \/ EpochNext
    \/ TrainEnter
    \/ NextBatch
    \/ QueryForward
    \/ ShuffleBN
    \/ ReadyCheck
    \/ ComputeLoss
    \/ OptimizerStep
    \/ Accumulate
    \/ MomentumStep
    \/ Enqueue
    \/ Dequeue
    \/ TrainReturn
    \/ Test
    \/ SaveStats
    \/ Checkpoint

Spec == Init /\ [][Next]_vars

\* ------------------------------------------- the run on any parsed arguments
\* --dictionary_size is parsed as any int (line 105) and nothing between the
\* parse and the first call of train() tests it: the run also starts with a
\* capacity of 0.
ZeroCapacityConfigs ==
    [batch_size : 1..MaxBatch, dictionary_size : {0}, num_data : 1..MaxData]

InitUnchecked ==
    /\ \E c \in Configs \cup ZeroCapacityConfigs :
        /\ batch_size = c.batch_size
        /\ dictionary_size = c.dictionary_size
        /\ num_data = c.num_data
    /\ epochs \in 1..MaxEpochs
    /\ params \in [Models -> ParamVecs]
    /\ requires_grad = [m \in Models |-> TRUE]
    /\ pc = "freeze_key"
    /\ epoch = 0
    /\ queue = <<>>
    /\ train_bar = <<>>
    /\ data = Empty /\ q = Empty /\ k = Empty /\ x_k = Empty
    /\ shuffle_idx = Empty /\ reverse_idx = Empty
    /\ N = 0 /\ K = 0
    /\ loss = 0 /\ total_loss = 0 /\ n_data = 0
    /\ current_loss = <<0, 0>>
    /\ current_acc_1 = 0 /\ best_acc = 0
    /\ checkpoint = "none"
    /\ sched_epoch = 0
    /\ negatives = <<>>
    /\ trace = <<>>
    /\ enqueued = <<>>
    /\ was_ready = FALSE
    /\ beta0_calls = 0
    /\ opt_steps = 0
    /\ logits = Empty /\ labels = Empty
    /\ results_acc_1 = <<>>
    /\ ready_n = 0 /\ ready_loss = 0
    /\ saved_at = {}

SpecUnchecked == InitUnchecked /\ [][Next]_vars

\* ------------------------------------------- get_shuffle_idx on its own
\* get_shuffle_idx called with any num_data in 0..MaxN; the driver's state is
\* that before the run starts.
InitShuffle ==
    /\ N \in 0..MaxN
    /\ pc = "get_shuffle_idx"
    /\ batch_size = 1 /\ dictionary_size = 1 /\ num_data = 1 /\ epochs = 1
    /\ params = [m \in Models |-> [i \in ParamIdx |-> 0]]
    /\ requires_grad = [m \in Models |-> TRUE]
    /\ epoch = 0
    /\ queue = <<>>
    /\ train_bar = <<>>
    /\ data = Empty /\ q = Empty /\ k = Empty /\ x_k = Empty
    /\ shuffle_idx = Empty /\ reverse_idx = Empty
    /\ K = 0
    /\ loss = 0 /\ total_loss = 0 /\ n_data = 0
    /\ current_loss = <<0, 0>>
    /\ current_acc_1 = 0 /\ best_acc = 0
    /\ checkpoint = "none"
    /\ sched_epoch = 0
    /\ negatives = <<>>
    /\ trace = <<>>
    /\ enqueued = <<>>
    /\ was_ready = FALSE
    /\ beta0_calls = 0
    /\ opt_steps = 0
    /\ logits = Empty /\ labels = Empty
    /\ results_acc_1 = <<>>
    /\ ready_n = 0 /\ ready_loss = 0
    /\ saved_at = {}

\* shuffle_value, reverse_idx = get_shuffle_idx(N)
ShuffleCall ==
    /\ pc = "get_shuffle_idx"
    /\ \E shuffle_value \in randperm(N) :
        LET idx == get_shuffle_idx(N, shuffle_value)
        IN  /\ shuffle_idx' = idx[1]
            /\ reverse_idx' = idx[2]
    /\ pc' = "returned"
    /\ UNCHANGED <<audit, config, epoch, params, requires_grad, queue, train_bar,
                   data, N, K, q, k, x_k, loss, negatives, logits, labels, totals, epoch_locals,
                   history>>

NextShuffle == ShuffleCall

SpecShuffle == InitShuffle /\ [][NextShuffle]_vars

\* ----------------------------------------------------------------- claims
Count(seq, x) == Cardinality({i \in 1..Len(seq) : seq[i] = x})

Suffix(seq, n) == SubSeq(seq, Len(seq) - n + 1, Len(seq))

\* C1: whatever permutation the random source produced, get_shuffle_idx(N)
\* returns (shuffle, reverse) with shuffle a bijection on 0..N-1 and reverse
\* its two-sided inverse: reverse[shuffle[i]] = i and shuffle[reverse[i]] = i.
C1_ShuffleInverse ==
    pc = "returned" =>
        /\ DOMAIN shuffle_idx = 0..(N - 1)
        /\ DOMAIN reverse_idx = 0..(N - 1)
        /\ \A i \in 0..(N - 1) : shuffle_idx[i] \in 0..(N - 1)
        /\ \A i, j \in 0..(N - 1) : i # j => shuffle_idx[i] # shuffle_idx[j]
        /\ \A i \in 0..(N - 1) : reverse_idx[shuffle_idx[i]] = i
        /\ \A i \in 0..(N - 1) : shuffle_idx[reverse_idx[i]] = i

\* a permutation that is not its own inverse has been returned
C1_Witness ==
    /\ pc = "returned"
    /\ N >= 3
    /\ \E i \in 0..(N - 1) : shuffle_idx[shuffle_idx[i]] # i
    /\ \A i \in 0..(N - 1) : reverse_idx[shuffle_idx[i]] = i

\* C2: after shuffle, key encoder and unshuffle, row i of k is the key-encoder
\* embedding of input image i, so it is aligned with row i of q; the rows stay
\* aligned with the batch for the rest of the step.
C2_KeyAligned ==
    /\ pc = "ready" =>
        /\ DOMAIN k = 0..(N - 1)
        /\ \A i \in 0..(N - 1) :
            /\ k[i] = Enc(params["k"], data[i])
            /\ q[i] = Enc(params["q"], data[i])
    /\ pc \in {"loss", "optimizer", "accumulate", "momentum", "enqueue"} =>
        \A i \in 0..(N - 1) : k[i].image = data[i] /\ q[i].image = data[i]

\* a batch whose key view went through the key encoder in an order that is
\* neither the original one nor an involution of it
C2_Witness ==
    /\ pc = "ready"
    /\ N >= 3
    /\ \E i \in 0..(N - 1) : shuffle_idx[shuffle_idx[i]] # i
    /\ \E i \in 0..(N - 1) : x_k[i] # data[i]
    /\ \A i \in 0..(N - 1) : k[i].image = data[i]

\* C3: once more than dictionary_size rows have been enqueued into a dictionary
\* that started empty, it holds exactly the dictionary_size most recently
\* enqueued rows, in their enqueue order.
C3_Fifo ==
    (pc # "dequeue" /\ Len(enqueued) > dictionary_size) =>
        /\ Len(queue) = dictionary_size
        /\ queue = Suffix(enqueued, dictionary_size)

\* N = 4, C = 8: after three batches the dictionary is batch 2 then batch 3
C3_Witness ==
    /\ pc = "loop"
    /\ batch_size = 4 /\ dictionary_size = 8
    /\ Len(enqueued) = 12
    /\ queue = SubSeq(enqueued, 5, 12)

\* C4: at the end of every training step, and so at every readiness test, the
\* dictionary holds at most dictionary_size rows.
C4_Capacity ==
    /\ pc # "dequeue" => Len(queue) <= dictionary_size
    /\ pc \in {"query", "shuffle", "ready"} => K <= dictionary_size

\* a smaller final batch has been enqueued into a full dictionary and evicted
C4_Witness ==
    /\ pc = "loop"
    /\ N > 0 /\ N < batch_size
    /\ K = dictionary_size
    /\ Len(queue) = dictionary_size
    /\ trace = <<"loss", "optimizer_step", "momentum_update", "queue_data",
                 "dequeue_data">>

\* C5: once a readiness test of the run has succeeded, every later readiness
\* test of the run succeeds, in later epochs too.
C5_ReadyMonotonic == (pc = "ready" /\ was_ready) => K >= dictionary_size

\* C6: the dictionary is changed by the per-step enqueue and evict only.
C6_OnlyEnqueueEvict == [][queue' # queue => pc \in {"enqueue", "dequeue"}]_vars

\* C7: a training step computes the loss, takes the optimizer step and updates
\* the key encoder exactly when the dictionary length at step start is at
\* least dictionary_size; it enqueues and then evicts in either case; and while
\* the dictionary is below capacity no encoder parameter changes.
C7_Gating ==
    /\ [](pc = "loop" /\ N > 0 =>
            trace = IF K >= dictionary_size
                    THEN <<"loss", "optimizer_step", "momentum_update",
                           "queue_data", "dequeue_data">>
                    ELSE <<"queue_data", "dequeue_data">>)
    /\ [][(pc \in {"query", "shuffle", "ready", "enqueue", "dequeue"}
            /\ K < dictionary_size) => params' = params]_vars

\* a warm-up step and a ready step have both completed
C7_Witness ==
    /\ pc = "loop"
    /\ K >= dictionary_size
    /\ Len(trace) = 5
    /\ Len(enqueued) > N

\* C8: in a training step the momentum update runs at most once, only after
\* optimizer.step() of that step, and a completed step has run it exactly as
\* often as optimizer.step().
C8_MomentumAfterStep ==
    /\ Count(trace, "momentum_update") <= 1
    /\ Count(trace, "optimizer_step") <= 1
    /\ \A i \in 1..Len(trace) :
        trace[i] = "momentum_update" =>
            \E j \in 1..(i - 1) : trace[j] = "optimizer_step"
    /\ pc \in {"enqueue", "dequeue", "loop"} =>
        Count(trace, "momentum_update") = Count(trace, "optimizer_step")

\* the momentum update has just run, after the optimizer step
C8_Witness ==
    /\ pc = "enqueue"
    /\ trace = <<"loss", "optimizer_step", "momentum_update">>

\* C9: momentum_update is called once with beta = 0, before the first epoch and
\* before any optimizer step; from then until the first optimizer step the key
\* parameters equal the query parameters.
C9_KeyInit ==
    /\ pc \in {"freeze_key", "init_momentum"} =>
        beta0_calls = 0 /\ opt_steps = 0 /\ epoch = 0
    /\ pc \notin {"freeze_key", "init_momentum"} =>
        /\ beta0_calls = 1
        /\ opt_steps = 0 => \A i \in ParamIdx : params["k"][i] = params["q"][i]

\* the first loss-producing step of epoch 1 starts with equal parameters
C9_Witness ==
    /\ pc = "loss"
    /\ epoch = 1
    /\ opt_steps = 0
    /\ Len(enqueued) >= dictionary_size
    /\ params["k"] = params["q"]

\* C10: the key parameters change in the momentum update only; optimizer.step()
\* leaves them unchanged, and the momentum update leaves the query parameters
\* unchanged.
C10_KeyOwnership ==
    [][/\ params'["k"] # params["k"] => pc \in {"init_momentum", "momentum"}
       /\ pc = "optimizer" => params'["k"] = params["k"]
       /\ pc \in {"init_momentum", "momentum"} => params'["q"] = params["q"]]_vars

\* the first optimizer step has moved the query parameters away from the key's
C10_Witness ==
    /\ pc = "accumulate"
    /\ opt_steps = 1
    /\ params["q"] # params["k"]

\* C11: no training step, loss computation or optimizer step runs with a
\* dictionary capacity or a temperature that is not positive: such a
\* configuration is rejected before the first training step.
C11_ConfigRejected ==
    pc \in {"query", "shuffle", "ready", "loss", "optimizer", "accumulate",
            "momentum", "enqueue", "dequeue"} =>
        dictionary_size > 0 /\ temp[1] > 0

\* C12: outside the ready branch of a step, n_data is the sum of the batch
\* sizes of this epoch's steps that were ready at step start and total_loss the
\* sum of their loss times batch size; a step that is not ready changes
\* neither; the value train() returns is total_loss / n_data.
C12_Totals ==
    /\ [](pc \in {"loop", "query", "shuffle", "ready", "momentum", "enqueue",
                  "dequeue", "test"} =>
            n_data = ready_n /\ total_loss = ready_loss)
    /\ [](pc = "test" => current_loss = <<ready_loss, ready_n>>)
    /\ [][(pc \in {"query", "shuffle", "ready", "enqueue", "dequeue"}
            /\ K < dictionary_size) =>
                (n_data' = n_data /\ total_loss' = total_loss)]_vars

\* an epoch with a warm-up step and a ready step of two images has returned
C12_Witness ==
    /\ pc = "test"
    /\ current_loss = <<total_loss, n_data>>
    /\ n_data >= 2 /\ n_data < num_data
    /\ total_loss > n_data
    /\ N >= 2

\* the number of rows the step that has just ended evicted
Evicted == K + N - Len(queue)

Max(a, b) == IF a > b THEN a ELSE b

\* C13 as stated: a step that starts with a full dictionary evicts exactly N
\* rows, and a step that starts below capacity evicts nothing.
C13_WarmupEvictsNothing ==
    (pc = "loop" /\ Len(enqueued) > 0) =>
        /\ K = dictionary_size => Evicted = N
        /\ K < dictionary_size => Evicted = 0

\* C13, amended: a step that starts with a full dictionary evicts exactly the
\* N oldest rows; a step that starts below capacity evicts the K + N -
\* dictionary_size oldest rows when that is positive, and nothing otherwise.
C13_Eviction ==
    (pc = "loop" /\ Len(enqueued) > 0) =>
        /\ K = dictionary_size => Evicted = N
        /\ K < dictionary_size => Evicted = Max(0, K + N - dictionary_size)
        /\ queue = Suffix(enqueued, K + N - Evicted)

\* N = 2, C = 3: the second warm-up step starts with 2 rows and evicts one
C13_Witness ==
    /\ pc = "loop"
    /\ Len(enqueued) > 0
    /\ K > 0 /\ K < dictionary_size
    /\ Evicted = 1
    /\ trace = <<"queue_data", "dequeue_data">>

\* C14: the negatives of a ready step are the dictionary as it stood at the
\* start of that step, which is the newest K rows enqueued by earlier steps;
\* the dictionary does not change before the step's enqueue, which follows the
\* loss, the optimizer step and the momentum update; so none of the step's own
\* keys is among its negatives.
C14_NegativesFromStepStart ==
    /\ []((pc \in {"optimizer", "accumulate", "momentum", "enqueue"}
            /\ Count(trace, "loss") = 1) =>
            /\ negatives = queue
            /\ Len(negatives) = K
            /\ negatives = Suffix(enqueued, K)
            /\ \A i \in 0..(N - 1) : \A j \in 1..Len(negatives) :
                    negatives[j] # k[i])
    /\ [](\A i \in 1..Len(trace) : trace[i] = "queue_data" =>
            \A j \in 1..Len(trace) :
                trace[j] \in {"loss", "optimizer_step", "momentum_update"} => j < i)
    /\ [][(pc \in {"query", "shuffle", "ready", "loss", "optimizer",
                   "accumulate", "momentum"}) => (queue' = queue)]_vars

\* a ready step whose negatives end with the last key of the step before
C14_Witness ==
    /\ pc = "enqueue"
    /\ trace = <<"loss", "optimizer_step", "momentum_update">>
    /\ K >= 2
    /\ negatives[K] = enqueued[Len(enqueued)]
    /\ negatives[K].image # k[0].image

\* C15: when train() reaches its return the example count is positive, so the
\* mean loss is defined and no epoch ends in an exception.
C15_ReturnDefined ==
    /\ (pc = "loop" /\ Len(train_bar) = 0) => n_data > 0
    /\ pc # "ZeroDivisionError"

\* C16: in every step that computes the loss the negatives are exactly
\* dictionary_size rows, so every logits row has the columns 0..dictionary_size,
\* with the positive (q[i], k[i]) in column 0, the negatives in dictionary
\* order after it, and the label 0.
C16_LogitsShape ==
    (pc \in {"optimizer", "accumulate", "momentum", "enqueue", "dequeue"}
        /\ Count(trace, "loss") = 1) =>
        /\ K = dictionary_size
        /\ Len(negatives) = dictionary_size
        /\ DOMAIN logits = 0..(N - 1)
        /\ DOMAIN labels = 0..(N - 1)
        /\ \A i \in 0..(N - 1) :
            /\ DOMAIN logits[i] = 0..dictionary_size
            /\ labels[i] = 0
            /\ logits[i][labels[i]] = <<q[i], k[i]>>
            /\ \A c \in 1..dictionary_size : logits[i][c] = <<q[i], negatives[c]>>

\* a loss over a batch of two images and a dictionary of two rows
C16_Witness ==
    /\ pc = "optimizer"
    /\ N >= 2
    /\ dictionary_size >= 2
    /\ DOMAIN logits[1] = 0..dictionary_size
    /\ logits[1][2] = <<q[1], queue[2]>>

\* the maximum of 0 and the top-1 accuracies of the first n completed epochs
BestOf(n) ==
    LET accs == {0} \cup {results_acc_1[e] : e \in 1..n}
    IN  CHOOSE m \in accs : \A x \in accs : m >= x

\* C17: after every epoch best_acc is the maximum of 0 and the top-1
\* accuracies of the epochs completed so far and never decreases; the
\* checkpoint was written in exactly the epochs whose accuracy was strictly
\* greater than best_acc as it stood before them; what is saved is the query
\* encoder's state_dict, never the key encoder's.
C17_BestCheckpoint ==
    /\ [](pc \in {"epoch_loop", "done"} =>
            /\ Len(results_acc_1) = epoch
            /\ best_acc = BestOf(epoch)
            /\ saved_at = {e \in 1..epoch : results_acc_1[e] > BestOf(e - 1)})
    /\ [](saved_at = {} => checkpoint = "none")
    /\ [](saved_at # {} =>
            /\ checkpoint.model = "q"
            /\ (pc = "epoch_loop" /\ epoch \in saved_at =>
                    checkpoint.state_dict = params["q"]))
    /\ [][best_acc' >= best_acc]_vars
    /\ [][(saved_at' # saved_at) =>
            (pc = "checkpoint" /\ current_acc_1 > best_acc
                /\ saved_at' = saved_at \cup {epoch}
                /\ checkpoint'.model = "q")]_vars

\* epoch 1 improved on 0 and was saved, epoch 2 only equalled it and was not
C17_Witness ==
    /\ pc = "epoch_loop"
    /\ epoch = 2
    /\ results_acc_1 = <<1, 1>>
    /\ saved_at = {1}
    /\ best_acc = 1

\* C18: for every configured epochs >= 1 the run stops only after epochs
\* 1..epochs have each been trained, evaluated and given their learning-rate
\* schedule step: when the driver is no longer running, epoch = epochs, one
\* accuracy per epoch has been recorded and the scheduler was last stepped
\* for the final epoch.
C18_RunsAllEpochs ==
    (epochs >= 1 /\ pc \in {"done", "ZeroDivisionError"}) =>
        /\ pc = "done"
        /\ epoch = epochs
        /\ Len(results_acc_1) = epochs
        /\ sched_epoch = epochs

====
